---- MODULE Spec2Model ----
(***************************************************************************)
(* clone-contract (bin/clone.js): resolve a contract reference to a        *)
(* (chain, address) pair, fetch the source bundle, write it to disk.       *)
(*                                                                         *)
(* JavaScript strings that the code inspects character by character (the   *)
(* contract token, URL hosts and path segments, chain identifiers) are     *)
(* sequences of one-character strings.  File contents and file names,      *)
(* which the code only compares and concatenates, are TLA+ strings.        *)
(***************************************************************************)
EXTENDS Integers, Sequences, FiniteSets, TLC

VARIABLES
    args,        \* process.argv.slice(2)
    api,         \* the JSON body the remote lookup answers with
    url,         \* the argument handed to tryParseExplorerUrl
    parsed,      \* what tryParseExplorerUrl returned or threw
    bundle,      \* what fetchSource returned or threw
    pc,          \* where main is
    run,         \* which invocation of the program this is (1, 2, ...)
    error,       \* the message of the error that ended the invocation
    chain, contract, providedOutputRoot, merge,   \* parseArgs' result
    outputRoot,  \* main's outputRoot, a directory path
    fetches,     \* remote lookups issued by this invocation
    checked,     \* whether this invocation ran readdir on the destination
    files,       \* the filesystem: file path -> content
    dirs,        \* the filesystem: the directories that exist
    start,       \* the filesystem as this invocation found it
    tasks        \* the writeSourceWithMerge calls of this invocation

vars == <<args, api, url, parsed, bundle, pc, run, error, chain, contract,
          providedOutputRoot, merge, outputRoot, fetches, checked, files,
          dirs, start, tasks>>

----------------------------------------------------------------------------
(* Bounds of the model *)

\* Raw path segments of a URL drawn for tryParseExplorerUrl.
MaxSegs == 3
\* Invocations of the program in a row on the same filesystem.
MaxRuns == 2

----------------------------------------------------------------------------
(* JavaScript values *)

\* undefined and null, as values of sequence type that no string equals.
Undefined == <<"undefined!">>
Null == <<"null!">>

\* A value's truthiness, for the strings, undefined and null the code tests.
Truthy(v) == v \notin {Undefined, Null, <<>>}

\* a || b
Or(a, b) == IF Truthy(a) THEN a ELSE b

\* The string a template literal or a path makes of a character sequence.
RECURSIVE StrOf(_)
StrOf(s) == IF s = <<>> THEN "" ELSE s[1] \o StrOf(Tail(s))

Rep(c, n) == [i \in 1..n |-> c]

UpperLetters == <<"A","B","C","D","E","F","G","H","I","J","K","L","M",
                  "N","O","P","Q","R","S","T","U","V","W","X","Y","Z">>
LowerLetters == <<"a","b","c","d","e","f","g","h","i","j","k","l","m",
                  "n","o","p","q","r","s","t","u","v","w","x","y","z">>

\* String.prototype.toLowerCase, on the ASCII letters.
ToLowerCase(s) ==
    [i \in 1..Len(s) |->
        IF \E k \in 1..26 : UpperLetters[k] = s[i]
        THEN LowerLetters[CHOOSE k \in 1..26 : UpperLetters[k] = s[i]]
        ELSE s[i]]

\* Array.prototype.indexOf / findIndex over the tests' outcomes, 1-based;
\* 0 is JavaScript's -1.
FirstTrue(outcomes) ==
    IF \E i \in 1..Len(outcomes) : outcomes[i]
    THEN CHOOSE i \in 1..Len(outcomes) :
            outcomes[i] /\ \A j \in 1..(i - 1) : ~outcomes[j]
    ELSE 0

\* seq[i] of a JavaScript array (i 1-based here): undefined past the end.
At(seq, i, undef) == IF i \in 1..Len(seq) THEN seq[i] ELSE undef

----------------------------------------------------------------------------
(* tryParseExplorerUrl *)

\* {40} in /^0x[a-fA-F0-9]{40}$/
AddrHexLen == 40

HexChars == {"0","1","2","3","4","5","6","7","8","9",
             "a","b","c","d","e","f","A","B","C","D","E","F"}

\* Mutant of IsAddress: the pattern without its {40} quantifier bound.
IsAddressAnyLength(s) ==
    /\ Len(s) >= 3
    /\ s[1] = "0"
    /\ s[2] = "x"
    /\ \A i \in 3..Len(s) : s[i] \in HexChars

\* /^0x[a-fA-F0-9]{40}$/.test(s)
IsAddress(s) ==
    /\ Len(s) = AddrHexLen + 2
    /\ s[1] = "0"
    /\ s[2] = "x"
    /\ \A i \in 3..Len(s) : s[i] \in HexChars

BlockscanHost ==
    <<"v","s","c","o","d","e",".","b","l","o","c","k","s","c","a","n",
      ".","c","o","m">>

EtherscanHost == <<"e","t","h","e","r","s","c","a","n",".","i","o">>
PolygonscanHost ==
    <<"p","o","l","y","g","o","n","s","c","a","n",".","c","o","m">>

\* chains.json: explorer hostname -> chain id (the ids as their decimal text,
\* which is how the code uses them: in a template literal).
domainMap == (EtherscanHost :> <<"1">>) @@ (PolygonscanHost :> <<"1","3","7">>)

\* The properties an object made by JSON.parse inherits from Object.prototype
\* and that a lower-cased hostname can spell.
ConstructorKey == <<"c","o","n","s","t","r","u","c","t","o","r">>
ProtoKey == <<"_","_","p","r","o","t","o","_","_">>
InheritedKeys == {ConstructorKey, ProtoKey}
\* What such an inherited property holds: a function or an object, truthy.
InheritedValue == <<"[object]!">>

\* obj[key] on the object JSON.parse returned: an own property, else one
\* inherited through the prototype chain, else undefined.
GetProperty(obj, key) ==
    IF key \in DOMAIN obj THEN obj[key]
    ELSE IF key \in InheritedKeys THEN InheritedValue
    ELSE Undefined

AddressMarker == <<"a","d","d","r","e","s","s">>
TokenMarker == <<"t","o","k","e","n">>
ContractMarker == <<"c","o","n","t","r","a","c","t">>

\* Mutant of IsMarker: the comparison without toLowerCase().
IsMarkerCaseSensitive(segment) ==
    segment \in {AddressMarker, TokenMarker, ContractMarker}

\* ["address", "token", "contract"].includes(segment.toLowerCase())
IsMarker(segment) ==
    ToLowerCase(segment) \in {AddressMarker, TokenMarker, ContractMarker}

\* urlObj.hostname: the URL parser lower-cases the host.
Hostname(u) == ToLowerCase(u.host)

\* urlObj.pathname.split("/").filter(Boolean)
PathSegments(u) == SelectSeq(u.rawPath, LAMBDA s : s # <<>>)

Thrown(msg, via, read) ==
    [ok |-> FALSE, err |-> msg, contractAddress |-> Undefined,
     chainId |-> Undefined, via |-> via, registryRead |-> read]

Returned(address, chainId, via, read) ==
    [ok |-> TRUE, err |-> "", contractAddress |-> address,
     chainId |-> chainId, via |-> via, registryRead |-> read]

\* Mutant of ParseBlockscan: the second segment taken without the pattern test.
ParseBlockscanUnchecked(pathSegments) ==
    IF Len(pathSegments) < 2
    THEN Thrown("Failed to parse explorer URL: Invalid Blockscan URL format. Expected: /[chain-name|chain-id]/contractAddress",
                "blockscan", FALSE)
    ELSE Returned(pathSegments[2], pathSegments[1], "blockscan", FALSE)

\* The Blockscan branch: /[chain-name|chain-id]/contractAddress
ParseBlockscan(pathSegments) ==
    LET chainId == IF Len(pathSegments) >= 2 THEN pathSegments[1] ELSE Null
        contractAddress ==
            IF Len(pathSegments) >= 2 /\ IsAddress(pathSegments[2])
            THEN pathSegments[2] ELSE Null
    IN  IF ~Truthy(chainId) \/ ~Truthy(contractAddress)
        THEN Thrown("Failed to parse explorer URL: Invalid Blockscan URL format. Expected: /[chain-name|chain-id]/contractAddress",
                    "blockscan", FALSE)
        ELSE Returned(contractAddress, chainId, "blockscan", FALSE)

\* pathSegments.findIndex(marker), 1-based, 0 when there is none.
AddressIndex(pathSegments) ==
    FirstTrue([i \in 1..Len(pathSegments) |-> IsMarker(pathSegments[i])])

\* Whether the marker branch is taken:
\* addressIndex !== -1 && pathSegments[addressIndex + 1]
MarkerHit(pathSegments) ==
    /\ AddressIndex(pathSegments) # 0
    /\ Truthy(At(pathSegments, AddressIndex(pathSegments) + 1, Undefined))

\* pathSegments.find(segment => /^0x[a-fA-F0-9]{40}$/.test(segment))
FindAddress(pathSegments) ==
    At(pathSegments,
       FirstTrue([i \in 1..Len(pathSegments) |-> IsAddress(pathSegments[i])]),
       Undefined)

\* The generic explorer branch.
ParseExplorer(domain, pathSegments) ==
    LET chainId == GetProperty(domainMap, domain)
        hit == MarkerHit(pathSegments)
        contractAddress ==
            IF hit THEN At(pathSegments, AddressIndex(pathSegments) + 1, Undefined)
            ELSE FindAddress(pathSegments)
        via == IF hit THEN "marker" ELSE "fallback"
    IN  IF ~Truthy(chainId)
        THEN Thrown("Failed to parse explorer URL: Unsupported explorer domain",
                    "registry", TRUE)
        ELSE IF ~Truthy(contractAddress)
        THEN Thrown("Failed to parse explorer URL: Contract address not found in URL",
                    via, TRUE)
        ELSE Returned(contractAddress, chainId, via, TRUE)

\* new URL(url) throws ERR_INVALID_URL for a token that is no URL, and the
\* token itself comes back as the address, with no chainId.
tryParseExplorerUrl(u) ==
    IF u.kind # "url"
    THEN Returned(u.text, Undefined, "bare", FALSE)
    ELSE IF Hostname(u) = BlockscanHost
    THEN ParseBlockscan(PathSegments(u))
    ELSE ParseExplorer(Hostname(u), PathSegments(u))

----------------------------------------------------------------------------
(* Tokens *)

Word(text) == [kind |-> "word", text |-> text, host |-> <<>>, rawPath |-> <<>>]
\* The URL as the text of a command-line argument.
RECURSIVE PathText(_)
PathText(rawPath) ==
    IF rawPath = <<>> THEN <<>>
    ELSE <<"/">> \o Head(rawPath) \o PathText(Tail(rawPath))
Url(host, rawPath) ==
    [kind |-> "url",
     text |-> <<"h","t","t","p","s",":","/","/">> \o host \o PathText(rawPath),
     host |-> host, rawPath |-> rawPath]
\* args[i] past the end of args
NoArg == [kind |-> "undefined", text |-> Undefined, host |-> <<>>, rawPath |-> <<>>]

AddrLower == <<"0","x">> \o Rep("a", AddrHexLen)
AddrMixed == <<"0","x">> \o [i \in 1..AddrHexLen |-> IF i % 2 = 0 THEN "F" ELSE "3"]
AddrShort == <<"0","x">> \o Rep("a", AddrHexLen - 1)
AddrNotHex == <<"0","x">> \o Rep("a", AddrHexLen - 1) \o <<"g">>
AddrUpperX == <<"0","X">> \o Rep("a", AddrHexLen)
EthereumName == <<"e","t","h","e","r","e","u","m">>
PolygonName == <<"p","o","l","y","g","o","n">>

\* The raw segments a drawn URL path is made of; <<>> is the empty segment
\* a doubled or trailing slash leaves.
SegmentPool ==
    {AddrLower, AddrMixed, AddrShort, AddrNotHex, AddressMarker,
     <<"T","o","k","e","n">>, <<"1">>, EthereumName, <<>>}

UnknownHost == <<"e","x","a","m","p","l","e",".","o","r","g">>
HostPool ==
    {BlockscanHost, EtherscanHost, UnknownHost, ConstructorKey,
     <<"E","t","h","e","r","s","c","a","n",".","I","O">>}

RawPaths == UNION {[1..n -> SegmentPool] : n \in 0..MaxSegs}

UrlPool == {Url(h, p) : h \in HostPool, p \in RawPaths}
WordPool ==
    {Word(t) : t \in {AddrLower, AddrMixed, AddrShort, AddrNotHex, AddrUpperX,
                      EthereumName}}

----------------------------------------------------------------------------
(* tryParseExplorerUrl on its own: every drawn token, resolved once *)

NotYet == [ok |-> FALSE, err |-> "not yet", contractAddress |-> Undefined,
           chainId |-> Undefined, via |-> "none", registryRead |-> FALSE]

Idle ==
    /\ args = <<>>
    /\ pc = "idle"
    /\ run = 1
    /\ error = ""
    /\ chain = Undefined
    /\ contract = Undefined
    /\ providedOutputRoot = NoArg
    /\ merge = FALSE
    /\ outputRoot = <<>>
    /\ fetches = 0
    /\ checked = FALSE
    /\ files = <<>>
    /\ dirs = {<<>>}
    /\ start = [files |-> <<>>, dirs |-> {<<>>}]
    /\ tasks = <<>>

InitResolve ==
    /\ url \in UrlPool \cup WordPool
    /\ parsed = NotYet
    /\ api = <<>>
    /\ bundle = <<>>
    /\ Idle

Resolve ==
    /\ parsed = NotYet
    /\ parsed' = tryParseExplorerUrl(url)
    /\ UNCHANGED <<args, api, url, bundle, pc, run, error, chain, contract,
                   providedOutputRoot, merge, outputRoot, fetches, checked,
                   files, dirs, start, tasks>>

NextResolve == Resolve

SpecResolve == InitResolve /\ [][NextResolve]_vars

----------------------------------------------------------------------------
(* parseArgs *)

DashM == Word(<<"-","m">>)
MergeFlag == Word(<<"-","-","m","e","r","g","e">>)
ChainFlag == Word(<<"-","-","c","h","a","i","n">>)
HelpFlag == Word(<<"-","-","h","e","l","p">>)
DashH == Word(<<"-","h">>)

\* args.indexOf(x), 1-based; 0 is JavaScript's -1.
IndexOf(seq, x) == FirstTrue([i \in 1..Len(seq) |-> seq[i] = x])

\* args.filter((_, index) => index !== i)
WithoutIndex(seq, i) == SubSeq(seq, 1, i - 1) \o SubSeq(seq, i + 1, Len(seq))

Max(a, b) == IF a >= b THEN a ELSE b

\* chain = chain || parsed.chainId || "ethereum"
ChainOf(flag, fromUrl) == Or(flag, Or(fromUrl, EthereumName))

parseArgs(a) ==
    LET mergeIndex == Max(IndexOf(a, DashM), IndexOf(a, MergeFlag))
        a1 == IF mergeIndex # 0 THEN WithoutIndex(a, mergeIndex) ELSE a
        updatedChainIndex == IndexOf(a1, ChainFlag)
        flag == IF updatedChainIndex = 0 THEN Undefined
                ELSE At(a1, updatedChainIndex + 1, NoArg).text
        remainingArgs ==
            IF updatedChainIndex = 0 THEN a1
            ELSE SubSeq(a1, 1, updatedChainIndex - 1)
                 \o SubSeq(a1, updatedChainIndex + 2, Len(a1))
        token == At(remainingArgs, 1, NoArg)
        p == tryParseExplorerUrl(token)
    IN  [token |-> token,
         parsed |-> p,
         contract |-> p.contractAddress,
         chain |-> ChainOf(flag, p.chainId),
         outputRoot |-> At(remainingArgs, 2, NoArg),
         merge |-> mergeIndex # 0]

----------------------------------------------------------------------------
(* fetchSource *)

\* undefined, where the defined values are TLA+ strings.
UndefinedS == "undefined!"
TruthyS(v) == v \notin {UndefinedS, ""}
\* `${v}`
Template(v) == IF v = UndefinedS THEN "undefined" ELSE v

\* A relative path as path.join reads it: its directory segments and its
\* last segment, split where /\.[^/.]+$/ splits it (ext "" when the pattern
\* does not match).
File(dir, base, ext) == [dir |-> dir, base |-> base, ext |-> ext]
Entry(key, content) == [key |-> key, content |-> content]

\* What JSON.parse makes of a payload: a SyntaxError, null, a number or other
\* scalar, or an object that may hold sources and settings.remappings.
Json(kind, hasSources, sources, hasRemappings, remappings) ==
    [kind |-> kind, hasSources |-> hasSources, sources |-> sources,
     hasRemappings |-> hasRemappings, remappings |-> remappings]
NotJson == Json("SyntaxError", FALSE, <<>>, FALSE, <<>>)
Payload(text, json) == [text |-> text, json |-> json]

Failed(msg) ==
    [ok |-> FALSE, err |-> msg, contractName |-> UndefinedS,
     hasSources |-> FALSE, sources |-> <<>>,
     hasRemappings |-> FALSE, remappings |-> <<>>]
NoBundle == Failed("not yet")

\* The catch branch: one file named `${contractName}.${ext}`.
SingleFile(source, contractName, ext) ==
    [ok |-> TRUE, err |-> "", contractName |-> contractName,
     hasSources |-> TRUE,
     sources |-> <<Entry(File(<<>>, Template(contractName), Template(ext)),
                         source.text)>>,
     hasRemappings |-> FALSE, remappings |-> <<>>]

\* The try branch: result.sources and result.settings?.remappings, as they are.
Structured(source, contractName) ==
    [ok |-> TRUE, err |-> "", contractName |-> contractName,
     hasSources |-> source.json.hasSources,
     sources |-> source.json.sources,
     hasRemappings |-> source.json.hasRemappings,
     remappings |-> source.json.remappings]

\* Whether the try block throws: JSON.parse throws a SyntaxError, or it
\* returns null and null.sources throws a TypeError.
ParseThrows(source) == source.json.kind \in {"SyntaxError", "null"}

fetchSource(a) ==
    LET proxy == TruthyS(a.proxyAddress)
        source == IF proxy THEN a.proxyResult ELSE a.result
        contractName == IF proxy THEN a.proxyContractName ELSE a.contractName
        ext == IF proxy THEN a.proxyExt ELSE a.ext
    IN  IF ~TruthyS(source.text) THEN Failed("No source found")
        ELSE IF ParseThrows(source) THEN SingleFile(source, contractName, ext)
        ELSE Structured(source, contractName)

\* The payloads drawn.
NoPayload == Payload(UndefinedS, NotJson)
EmptyPayload == Payload("", NotJson)
RawPayload == Payload("contract Token {}", NotJson)
NullPayload == Payload("null", Json("null", FALSE, <<>>, FALSE, <<>>))
NumberPayload == Payload("123", Json("scalar", FALSE, <<>>, FALSE, <<>>))
EmptyObjectPayload == Payload("{}", Json("object", FALSE, <<>>, FALSE, <<>>))
NoFilesPayload ==
    Payload("{\"sources\":{}}", Json("object", TRUE, <<>>, FALSE, <<>>))
ASol == File(<<>>, "A", "sol")
DotASol == File(<<".">>, "A", "sol")
BSol == File(<<"dir">>, "B", "sol")
TwoFilesPayload ==
    Payload("{two files, remappings}",
            Json("object", TRUE,
                 <<Entry(ASol, "content1"), Entry(BSol, "content2")>>,
                 TRUE, <<"@x/=lib/x/">>))
CollidingPayload ==
    Payload("{A.sol and ./A.sol}",
            Json("object", TRUE,
                 <<Entry(ASol, "content1"), Entry(DotASol, "content3")>>,
                 FALSE, <<>>))
CollidingEmptyPayload ==
    Payload("{A.sol and an empty ./A.sol}",
            Json("object", TRUE,
                 <<Entry(ASol, "content1"), Entry(DotASol, "")>>,
                 FALSE, <<>>))
UpEvilSol == File(<<"..">>, "Evil", "sol")
EscapingPayload ==
    Payload("{A.sol and ../Evil.sol}",
            Json("object", TRUE,
                 <<Entry(ASol, "content1"), Entry(UpEvilSol, "content4")>>,
                 FALSE, <<>>))
EmptyRemappingsPayload ==
    Payload("{A.sol, remappings: []}",
            Json("object", TRUE, <<Entry(ASol, "content1")>>, TRUE, <<>>))
TwoRemappingsPayload ==
    Payload("{A.sol, two remappings}",
            Json("object", TRUE, <<Entry(ASol, "content1")>>,
                 TRUE, <<"@x/=lib/x/", "@y/=lib/y/">>))

Payloads ==
    {NoPayload, EmptyPayload, RawPayload, NullPayload, NumberPayload,
     EmptyObjectPayload, NoFilesPayload, TwoFilesPayload, CollidingPayload,
     CollidingEmptyPayload, EscapingPayload, EmptyRemappingsPayload,
     TwoRemappingsPayload}

Api(proxyAddress, proxyResult, result, contractName) ==
    [proxyAddress |-> proxyAddress, proxyResult |-> proxyResult,
     proxyContractName |-> "Impl", proxyExt |-> "vy",
     result |-> result, contractName |-> contractName, ext |-> "sol"]

ApiPool ==
    {Api(pa, pr, r, n) : pa \in {UndefinedS, "0ximpl"}, pr \in Payloads,
                         r \in Payloads, n \in {"Token", UndefinedS}}

----------------------------------------------------------------------------
(* fetchSource on its own: every drawn response, normalised once *)

InitFetch ==
    /\ api \in ApiPool
    /\ url = NoArg
    /\ parsed = NotYet
    /\ bundle = NoBundle
    /\ Idle

Normalise ==
    /\ bundle = NoBundle
    /\ bundle' = fetchSource(api)
    /\ UNCHANGED <<args, api, url, parsed, pc, run, error, chain, contract,
                   providedOutputRoot, merge, outputRoot, fetches, checked,
                   files, dirs, start, tasks>>

NextFetch == Normalise

SpecFetch == InitFetch /\ [][NextFetch]_vars

----------------------------------------------------------------------------
(* The filesystem: path.join, mkdir, readdir, writeFile, readFile *)

\* path.normalize on a list of segments: "." and empty segments go, ".."
\* takes back the segment before it, and stays when there is none to take.
RECURSIVE Normalize(_, _)
Normalize(done, rest) ==
    IF rest = <<>> THEN done
    ELSE LET seg == Head(rest) IN
         IF seg \in {".", ""} THEN Normalize(done, Tail(rest))
         ELSE IF seg = ".." /\ done # <<>> /\ done[Len(done)] # ".."
         THEN Normalize(SubSeq(done, 1, Len(done) - 1), Tail(rest))
         ELSE Normalize(Append(done, seg), Tail(rest))

\* join(outputRoot, filePath)
Join(root, filePath) ==
    File(Normalize(<<>>, root \o filePath.dir), filePath.base, filePath.ext)

\* The last segment of a file's path, and the file's path as a directory's.
FileName(f) == IF f.ext = "" THEN f.base ELSE f.base \o "." \o f.ext
AsDir(f) == Append(f.dir, FileName(f))

\* dirname(fullPath) and the directories mkdir(dir, {recursive: true}) makes.
Dirname(f) == f.dir
Ancestors(dir) == {SubSeq(dir, 1, n) : n \in 1..Len(dir)}

\* Whether some file sits where mkdir needs a directory (EEXIST, ENOTDIR).
MkdirFails(dir) ==
    \E d \in Ancestors(dir) : \E f \in DOMAIN files : AsDir(f) = d

\* readdir(root): the names of the files and directories in root.
DirEntries(root, fs) ==
    {FileName(f) : f \in {g \in DOMAIN fs.files : g.dir = root}}
    \cup {d[Len(d)] : d \in {e \in fs.dirs : Len(e) = Len(root) + 1
                                            /\ SubSeq(e, 1, Len(root)) = root}}

\* "Too many conflicts" when counter > 1000
MaxConflicts == 1000

\* if (counter > 1000) throw new Error("Too many conflicts")
TooManyConflicts(counter) == counter > MaxConflicts

\* Mutant of NextCounter: every other variant is skipped.
NextCounterSkipping(counter) == counter + 2

\* tryWriteFile(counter + 1)
NextCounter(counter) == counter + 1

\* generateFileName(counter): `${baseName}.conflict${counter}${extension}`
GenerateFileName(fullPath, counter) ==
    IF counter = 0 THEN fullPath
    ELSE IF fullPath.ext = ""
    THEN File(fullPath.dir, fullPath.base, "conflict" \o ToString(counter))
    ELSE File(fullPath.dir,
              fullPath.base \o ".conflict" \o ToString(counter), fullPath.ext)

\* Mutant of PathExists: flag "w" for "wx", the open never fails with EEXIST.
PathExistsNever(target) == FALSE

\* Whether open(target, "wx") fails with EEXIST: a file or a directory is there.
PathExists(target) == target \in DOMAIN files \/ AsDir(target) \in dirs

\* Mutant of SameContent: the existing content compared with the file's path.
SameContentAsPath(existingContent, sourceCode, targetPath) ==
    existingContent = FileName(targetPath)

\* existingContent === sourceCode
SameContent(existingContent, sourceCode, targetPath) ==
    existingContent = sourceCode

----------------------------------------------------------------------------
(* writeSourceWithMerge: one call is one task *)

NewTask(filePath, sourceCode, root) ==
    [filePath |-> filePath, sourceCode |-> sourceCode,
     fullPath |-> Join(root, filePath),
     pc |-> "ensureDir", counter |-> 0,
     differs |-> FALSE,      \* the target held other content at counter 0
     err |-> ""]

Alive == pc \in {"await", "remap"}

\* await ensureDir(dirname(fullPath))
TaskEnsureDir(i) ==
    /\ Alive
    /\ tasks[i].pc = "ensureDir"
    /\ LET dir == Dirname(tasks[i].fullPath) IN
       IF MkdirFails(dir)
       THEN /\ tasks' = [tasks EXCEPT ![i].pc = "failed", ![i].err = "EEXIST: mkdir"]
            /\ dirs' = dirs
       ELSE /\ dirs' = dirs \cup Ancestors(dir)
            /\ tasks' = [tasks EXCEPT ![i].pc = "open"]
    /\ UNCHANGED <<args, api, url, parsed, bundle, pc, run, error, chain,
                   contract, providedOutputRoot, merge, outputRoot, fetches,
                   checked, files, start>>

\* tryWriteFile(counter) up to the exclusive create: the ceiling, then
\* open(targetPath, "wx"); EEXIST leads to the comparison at counter 0 and
\* to tryWriteFile(counter + 1) above it.
TaskOpen(i) ==
    /\ Alive
    /\ tasks[i].pc = "open"
    /\ LET t == tasks[i]
           targetPath == GenerateFileName(t.fullPath, t.counter)
       IN  IF TooManyConflicts(t.counter)
           THEN /\ tasks' = [tasks EXCEPT ![i].pc = "failed",
                                          ![i].err = "Too many conflicts"]
                /\ files' = files
           ELSE IF PathExists(targetPath)
           THEN /\ tasks' = IF t.counter = 0
                            THEN [tasks EXCEPT ![i].pc = "read"]
                            ELSE [tasks EXCEPT ![i].counter = NextCounter(t.counter)]
                /\ files' = files
           ELSE /\ files' = (targetPath :> "") @@ files
                /\ tasks' = [tasks EXCEPT ![i].pc = "write"]
    /\ UNCHANGED <<args, api, url, parsed, bundle, pc, run, error, chain,
                   contract, providedOutputRoot, merge, outputRoot, fetches,
                   checked, dirs, start>>

\* writeFile's write of sourceCode into the file it created.
TaskWrite(i) ==
    /\ Alive
    /\ tasks[i].pc = "write"
    /\ LET t == tasks[i]
           targetPath == GenerateFileName(t.fullPath, t.counter)
       IN  /\ files' = [files EXCEPT ![targetPath] = t.sourceCode]
           /\ tasks' = [tasks EXCEPT ![i].pc = "done"]
    /\ UNCHANGED <<args, api, url, parsed, bundle, pc, run, error, chain,
                   contract, providedOutputRoot, merge, outputRoot, fetches,
                   checked, dirs, start>>

\* readFile(targetPath) at counter 0 and the comparison: identical content
\* ends the call, other content goes on to tryWriteFile(1).
TaskRead(i) ==
    /\ Alive
    /\ tasks[i].pc = "read"
    /\ LET t == tasks[i] IN
       IF t.fullPath \notin DOMAIN files
       THEN tasks' = [tasks EXCEPT ![i].pc = "failed", ![i].err = "EISDIR: read"]
       ELSE IF SameContent(files[t.fullPath], t.sourceCode, t.fullPath)
       THEN tasks' = [tasks EXCEPT ![i].pc = "done"]
       ELSE tasks' = [tasks EXCEPT ![i].pc = "open",
                                   ![i].counter = NextCounter(t.counter),
                                   ![i].differs = TRUE]
    /\ UNCHANGED <<args, api, url, parsed, bundle, pc, run, error, chain,
                   contract, providedOutputRoot, merge, outputRoot, fetches,
                   checked, files, dirs, start>>

----------------------------------------------------------------------------
(* main *)

\* remappings.join("\n")
RECURSIVE JoinLines(_)
JoinLines(remappings) ==
    IF remappings = <<>> THEN ""
    ELSE IF Len(remappings) = 1 THEN remappings[1]
    ELSE remappings[1] \o "\n" \o JoinLines(Tail(remappings))

RemappingsTxt == File(<<>>, "remappings", "txt")

\* providedOutputRoot || `./${contractName || `Contract_${contract.slice(0, 8)}`}`
OutputRootOf(provided, contractName, address) ==
    IF Truthy(provided.text) THEN Normalize(<<>>, <<StrOf(provided.text)>>)
    ELSE IF TruthyS(contractName) THEN <<contractName>>
    ELSE <<"Contract_" \o StrOf(SubSeq(address, 1, 8))>>

\* args.length < 1 || args.includes("--help") || args.includes("-h")
WantsHelp(a) == Len(a) < 1 \/ IndexOf(a, HelpFlag) # 0 \/ IndexOf(a, DashH) # 0

\* Mutant of AfterParseArgs: the error of tryParseExplorerUrl is swallowed.
AfterParseArgsAlways(ok) == "fetch"

\* await parseArgs(args): main goes on to the fetch when it returns; when it
\* throws, main rejects before its try block.
AfterParseArgs(ok) == IF ok THEN "fetch" ELSE "exited"

\* main up to parseArgs' return: the usage text, or the parsed arguments; an
\* error thrown by tryParseExplorerUrl is outside main's try and ends the
\* process.
ParseArgs ==
    /\ pc = "start"
    /\ IF WantsHelp(args)
       THEN /\ pc' = "help"
            /\ UNCHANGED <<url, parsed, chain, contract, providedOutputRoot,
                           merge, error>>
       ELSE LET r == parseArgs(args) IN
            /\ url' = r.token
            /\ parsed' = r.parsed
            /\ chain' = r.chain
            /\ contract' = r.contract
            /\ providedOutputRoot' = r.outputRoot
            /\ merge' = r.merge
            /\ pc' = AfterParseArgs(r.parsed.ok)
            /\ error' = r.parsed.err
    /\ UNCHANGED <<args, api, bundle, run, outputRoot, fetches, checked,
                   files, dirs, start, tasks>>

\* fetchSource(contract, chain), and outputRoot.
FetchSource ==
    /\ pc = "fetch"
    /\ fetches' = fetches + 1
    /\ bundle' = fetchSource(api)
    /\ IF bundle'.ok
       THEN /\ outputRoot' = OutputRootOf(providedOutputRoot,
                                          bundle'.contractName, contract)
            /\ pc' = IF merge THEN "write" ELSE "check"
            /\ error' = error
       ELSE /\ outputRoot' = outputRoot
            /\ pc' = "exited"
            /\ error' = bundle'.err
    /\ UNCHANGED <<args, api, url, parsed, run, chain, contract,
                   providedOutputRoot, merge, checked, files, dirs, start,
                   tasks>>

\* Mutant of IsEmptyListing: files.length > 1 for files.length > 0.
IsEmptyListingOffByOne(entries) == Cardinality(entries) <= 1

\* !(files.length > 0)
IsEmptyListing(entries) == Cardinality(entries) = 0

\* if (!merge) await checkOutputDirectory(outputRoot)
CheckOutputDirectory ==
    /\ pc = "check"
    /\ checked' = TRUE
    /\ IF outputRoot \in dirs
       THEN IF IsEmptyListing(DirEntries(outputRoot, [files |-> files, dirs |-> dirs]))
            THEN pc' = "write" /\ error' = error
            ELSE pc' = "exited" /\ error' = "Directory is not empty"
       ELSE IF \E f \in DOMAIN files : AsDir(f) = outputRoot
       THEN pc' = "exited" /\ error' = "ENOTDIR: scandir"
       ELSE pc' = "write" /\ error' = error
    /\ UNCHANGED <<args, api, url, parsed, bundle, run, chain, contract,
                   providedOutputRoot, merge, outputRoot, fetches, files,
                   dirs, start, tasks>>

\* Object.entries(sources).map(...): every call runs up to its first await.
LaunchWrites ==
    /\ pc = "write"
    /\ IF bundle.hasSources
       THEN /\ tasks' = [i \in 1..Len(bundle.sources) |->
                            NewTask(bundle.sources[i].key,
                                    bundle.sources[i].content, outputRoot)]
            /\ pc' = "await"
            /\ error' = error
       ELSE /\ tasks' = tasks
            /\ pc' = "exited"
            /\ error' = "TypeError: Cannot convert undefined or null to object"
    /\ UNCHANGED <<args, api, url, parsed, bundle, run, chain, contract,
                   providedOutputRoot, merge, outputRoot, fetches, checked,
                   files, dirs, start>>

\* Promise.all fulfils; if (remappings) the remappings file is written next.
Settle ==
    /\ pc = "await"
    /\ \A i \in 1..Len(tasks) : tasks[i].pc = "done"
    /\ IF bundle.hasRemappings
       THEN /\ tasks' = Append(tasks, NewTask(RemappingsTxt,
                                              JoinLines(bundle.remappings),
                                              outputRoot))
            /\ pc' = "remap"
       ELSE /\ tasks' = tasks
            /\ pc' = "done"
    /\ UNCHANGED <<args, api, url, parsed, bundle, run, error, chain,
                   contract, providedOutputRoot, merge, outputRoot, fetches,
                   checked, files, dirs, start>>

\* The remappings write returns; main ends.
Finish ==
    /\ pc = "remap"
    /\ tasks[Len(tasks)].pc = "done"
    /\ pc' = "done"
    /\ UNCHANGED <<args, api, url, parsed, bundle, run, error, chain,
                   contract, providedOutputRoot, merge, outputRoot, fetches,
                   checked, files, dirs, start, tasks>>

\* A write rejects: main's catch, process.exit(1).
Catch ==
    /\ Alive
    /\ \E i \in 1..Len(tasks) :
          /\ tasks[i].pc = "failed"
          /\ error' = tasks[i].err
    /\ pc' = "exited"
    /\ UNCHANGED <<args, api, url, parsed, bundle, run, chain, contract,
                   providedOutputRoot, merge, outputRoot, fetches, checked,
                   files, dirs, start, tasks>>

\* The same command line again, answered by the same response, on the
\* filesystem the invocation before it left.
Rerun ==
    /\ pc = "done"
    /\ run < MaxRuns
    /\ run' = run + 1
    /\ pc' = "start"
    /\ url' = NoArg
    /\ parsed' = NotYet
    /\ bundle' = NoBundle
    /\ error' = ""
    /\ chain' = Undefined
    /\ contract' = Undefined
    /\ providedOutputRoot' = NoArg
    /\ merge' = FALSE
    /\ outputRoot' = <<>>
    /\ fetches' = 0
    /\ checked' = FALSE
    /\ tasks' = <<>>
    /\ start' = [files |-> files, dirs |-> dirs]
    /\ UNCHANGED <<args, api, files, dirs>>

----------------------------------------------------------------------------
(* The command lines, responses and filesystems drawn *)

Out == Word(<<"o","u","t">>)
OutDir == <<"out">>

ContractTokens ==
    {Word(AddrLower),
     Url(EtherscanHost, <<AddressMarker, AddrLower>>),
     Url(BlockscanHost, <<EthereumName, AddrLower>>),
     Url(UnknownHost, <<AddressMarker, AddrLower>>)}

ArgPool ==
    {c \o m \o <<t>> \o o :
        c \in {<<>>, <<ChainFlag, Word(PolygonName)>>},
        m \in {<<>>, <<DashM>>},
        t \in ContractTokens,
        o \in {<<Out>>}}
    \cup {<<Word(AddrLower)>>, <<MergeFlag, Word(AddrLower), Out>>,
          <<HelpFlag>>}

MainApiPool ==
    {Api(UndefinedS, NoPayload, r, "Token") :
        r \in {NoPayload, RawPayload, EmptyObjectPayload, TwoFilesPayload,
               CollidingPayload, CollidingEmptyPayload, EscapingPayload,
               EmptyRemappingsPayload}}

OutFile(base, ext) == File(OutDir, base, ext)

FsPool ==
    {[files |-> <<>>, dirs |-> {<<>>}],
     [files |-> <<>>, dirs |-> {<<>>, OutDir}],
     [files |-> (OutFile("A", "sol") :> "content1"), dirs |-> {<<>>, OutDir}],
     [files |-> (OutFile("A", "sol") :> "content0"), dirs |-> {<<>>, OutDir}],
     [files |-> (OutFile("A", "sol") :> "content0")
                @@ (OutFile("A.conflict1", "sol") :> "content9"),
      dirs |-> {<<>>, OutDir}],
     [files |-> (OutFile("", "hidden") :> ""), dirs |-> {<<>>, OutDir}],
     [files |-> (OutFile("remappings", "txt") :> "old"), dirs |-> {<<>>, OutDir}],
     [files |-> (File(<<>>, "out", "") :> "a file"), dirs |-> {<<>>}],
     [files |-> (OutFile("dir", "") :> "a file"), dirs |-> {<<>>, OutDir}]}

Init ==
    /\ args \in ArgPool
    /\ api \in MainApiPool
    /\ \E fs \in FsPool :
          /\ files = fs.files
          /\ dirs = fs.dirs
          /\ start = fs
    /\ url = NoArg
    /\ parsed = NotYet
    /\ bundle = NoBundle
    /\ pc = "start"
    /\ run = 1
    /\ error = ""
    /\ chain = Undefined
    /\ contract = Undefined
    /\ providedOutputRoot = NoArg
    /\ merge = FALSE
    /\ outputRoot = <<>>
    /\ fetches = 0
    /\ checked = FALSE
    /\ tasks = <<>>

Next ==
    \/ ParseArgs
    \/ FetchSource
    \/ CheckOutputDirectory
    \/ LaunchWrites
    \/ \E i \in 1..Len(tasks) : TaskEnsureDir(i)
    \/ \E i \in 1..Len(tasks) : TaskOpen(i)
    \/ \E i \in 1..Len(tasks) : TaskWrite(i)
    \/ \E i \in 1..Len(tasks) : TaskRead(i)
    \/ Settle
    \/ Finish
    \/ Catch
    \/ Rerun

Spec == Init /\ [][Next]_vars

----------------------------------------------------------------------------
(* The program on destinations crowded with conflict variants *)

\* A destination where A.sol and its conflict variants 1..n are taken.
CrowdedFs(n) ==
    [files |-> [f \in {GenerateFileName(OutFile("A", "sol"), k) : k \in 0..n}
                   |-> "content0"],
     dirs |-> {<<>>, OutDir}]

\* The responses: A.sol with a second file and remappings, and A.sol alone.
TwoFilesApi == Api(UndefinedS, NoPayload, TwoFilesPayload, "Token")
OneFileApi == Api(UndefinedS, NoPayload, EmptyRemappingsPayload, "Token")

\* The destination with all the variants taken meets the first response, the
\* one with all but the last taken meets the second, and the small ones meet
\* the first; each with and without --merge.
CrowdedPool ==
    {[api |-> TwoFilesApi, fs |-> CrowdedFs(MaxConflicts)],
     [api |-> OneFileApi, fs |-> CrowdedFs(MaxConflicts - 1)]}
    \cup {[api |-> TwoFilesApi, fs |-> fs] : fs \in FsPool}
CrowdedArgPool == {<<DashM, Word(AddrLower), Out>>, <<Word(AddrLower), Out>>}

InitRetry ==
    /\ args \in CrowdedArgPool
    /\ \E drawn \in CrowdedPool :
          /\ api = drawn.api
          /\ files = drawn.fs.files
          /\ dirs = drawn.fs.dirs
          /\ start = drawn.fs
    /\ url = NoArg
    /\ parsed = NotYet
    /\ bundle = NoBundle
    /\ pc = "start"
    /\ run = 1
    /\ error = ""
    /\ chain = Undefined
    /\ contract = Undefined
    /\ providedOutputRoot = NoArg
    /\ merge = FALSE
    /\ outputRoot = <<>>
    /\ fetches = 0
    /\ checked = FALSE
    /\ tasks = <<>>

\* Every pending continuation is run by the event loop sooner or later.
SpecRetry == InitRetry /\ [][Next]_vars /\ WF_vars(Next)

----------------------------------------------------------------------------
(* CLAIMS *)

\* /^0x[a-fA-F0-9]{40}$/ as the specification words it: "0x", then exactly
\* forty hexadecimal digits.
MatchesAddressPattern(s) ==
    /\ Len(s) = 42
    /\ SubSeq(s, 1, 2) = <<"0","x">>
    /\ \A i \in 3..42 : s[i] \in HexChars

\* The non-empty segments of the drawn URL's path, in order.
UrlSegs == SelectSeq(url.rawPath, LAMBDA s : Len(s) > 0)

IsUrlOn(hosts) == url.kind = "url" /\ ToLowerCase(url.host) \in hosts
IsGenericUrl == url.kind = "url" /\ ToLowerCase(url.host) # BlockscanHost
Resolved == parsed # NotYet

MarkerWords == {AddressMarker, TokenMarker, ContractMarker}
MarkerPositions == {i \in 1..Len(UrlSegs) : ToLowerCase(UrlSegs[i]) \in MarkerWords}
FirstMarker == CHOOSE i \in MarkerPositions : \A j \in MarkerPositions : i <= j
AddressPositions == {i \in 1..Len(UrlSegs) : MatchesAddressPattern(UrlSegs[i])}
FirstAddress == CHOOSE i \in AddressPositions : \A j \in AddressPositions : i <= j

\* C5 (as stated): whenever resolve does not fail, the returned
\* contractAddress matches ^0x[0-9a-fA-F]{40}$ (so resolve fails for every
\* token from which no such address is obtained).
C5_Original ==
    Resolved /\ parsed.ok => MatchesAddressPattern(parsed.contractAddress)

\* C5 (amended): on the aggregator path and on the generic fallback scan a
\* successful resolve returns a contractAddress matching the pattern; a token
\* that is no URL is returned verbatim, with no chain identifier, and the
\* segment after a marker is returned as it is, neither checked against the
\* pattern.
C5_Amended ==
    Resolved =>
        /\ parsed.ok /\ parsed.via \in {"blockscan", "fallback"}
              => MatchesAddressPattern(parsed.contractAddress)
        /\ url.kind # "url"
              => /\ parsed.ok
                 /\ parsed.contractAddress = url.text
                 /\ parsed.chainId = Undefined
        /\ parsed.ok /\ parsed.via = "marker"
              => parsed.contractAddress = UrlSegs[FirstMarker + 1]

C5_Witness ==
    /\ Resolved /\ parsed.ok /\ parsed.via = "fallback"
    /\ Len(UrlSegs) = 3
    /\ ~MatchesAddressPattern(UrlSegs[1])
    /\ MatchesAddressPattern(parsed.contractAddress)

\* C6: on the aggregator host, a path of at least two segments whose second
\* matches the address pattern resolves to (second segment, first segment
\* verbatim) without the registry being read; any other path fails.
C6_Aggregator ==
    Resolved /\ IsUrlOn({BlockscanHost}) =>
        IF Len(UrlSegs) >= 2 /\ MatchesAddressPattern(UrlSegs[2])
        THEN /\ parsed.ok
             /\ parsed.contractAddress = UrlSegs[2]
             /\ parsed.chainId = UrlSegs[1]
             /\ ~parsed.registryRead
        ELSE ~parsed.ok

C6_Witness ==
    /\ Resolved /\ IsUrlOn({BlockscanHost}) /\ parsed.ok
    /\ parsed.chainId = EthereumName
    /\ parsed.chainId \notin DOMAIN domainMap
    /\ Len(UrlSegs) = 3

\* C7: a generic explorer URL whose hostname is no key of the Chain Registry
\* fails, whatever its path; for a registered hostname the chain identifier
\* is the registry's value.  (That the failure is the unsupported-domain
\* error is left out: a resolve that does not fail at all refutes the claim.)
C7_Claim ==
    Resolved /\ IsGenericUrl =>
        IF ToLowerCase(url.host) \in DOMAIN domainMap
        THEN parsed.ok => parsed.chainId = domainMap[ToLowerCase(url.host)]
        ELSE ~parsed.ok

\* C8 (as stated): on a registered host, when some segment is a marker the
\* address is the segment that follows a marker, the fallback scan being
\* used only when no marker segment is found.
C8_Original ==
    Resolved /\ IsUrlOn(DOMAIN domainMap) =>
        /\ MarkerPositions # {} /\ parsed.ok =>
              \E i \in MarkerPositions :
                  /\ i < Len(UrlSegs)
                  /\ parsed.contractAddress = UrlSegs[i + 1]
        /\ MarkerPositions = {} /\ AddressPositions # {} =>
              parsed.ok /\ parsed.contractAddress = UrlSegs[FirstAddress]
        /\ MarkerPositions = {} /\ AddressPositions = {} => ~parsed.ok

\* C8 (amended): on a registered host, when the first marker segment has a
\* segment after it, that segment is the address, whatever follows; when
\* there is no marker, or the first marker is the last segment, the address
\* is the first segment matching the address pattern; when that finds none,
\* resolution fails with the address-not-found error.
C8_Amended ==
    Resolved /\ IsUrlOn(DOMAIN domainMap) =>
        IF MarkerPositions # {} /\ FirstMarker < Len(UrlSegs)
        THEN /\ parsed.ok
             /\ parsed.via = "marker"
             /\ parsed.contractAddress = UrlSegs[FirstMarker + 1]
        ELSE IF AddressPositions # {}
        THEN /\ parsed.ok
             /\ parsed.via = "fallback"
             /\ parsed.contractAddress = UrlSegs[FirstAddress]
        ELSE /\ ~parsed.ok
             /\ parsed.err = "Failed to parse explorer URL: Contract address not found in URL"

C8_Witness ==
    /\ Resolved /\ IsUrlOn(DOMAIN domainMap) /\ parsed.ok
    /\ parsed.via = "marker"
    /\ UrlSegs[1] = <<"T","o","k","e","n">>
    /\ parsed.contractAddress = AddrMixed
    /\ Len(UrlSegs) = 3

----------------------------------------------------------------------------
(* Claims about one invocation, and about two in a row *)

\* The value --chain carries on the command line, if it is there.
HasChainOption == \E i \in 1..Len(args) : args[i] = ChainFlag
ChainOption ==
    LET i == CHOOSE j \in 1..Len(args) :
                args[j] = ChainFlag /\ \A k \in 1..(j - 1) : args[k] # ChainFlag
    IN  args[i + 1].text

ArgsParsed == parsed # NotYet /\ parsed.ok

\* C1: when the contract token is a URL the chain handed to the fetch is
\* the one resolved from the URL, whatever --chain carries; for a bare
\* address it is --chain's value, or "ethereum" when --chain is absent.
C1_Claim ==
    ArgsParsed =>
        IF url.kind = "url" THEN chain = parsed.chainId
        ELSE IF HasChainOption THEN chain = ChainOption
        ELSE chain = EthereumName

\* Everything this invocation is to write: the bundle's files, then the
\* remappings file when it has remappings.
Fetched == bundle # NoBundle /\ bundle.ok /\ bundle.hasSources
RemappingsEntry == Entry(RemappingsTxt, JoinLines(bundle.remappings))
LogicalFiles ==
    {bundle.sources[i] : i \in 1..Len(bundle.sources)}
    \cup (IF bundle.hasRemappings THEN {RemappingsEntry} ELSE {})
TargetOf(e) == Join(outputRoot, e.key)

\* The invocation found every one of its files already stored, with the
\* same content, at that file's own target path.
AllStoredAtTarget ==
    \A e \in LogicalFiles :
        /\ TargetOf(e) \in DOMAIN start.files
        /\ start.files[TargetOf(e)] = e.content

Unchanged == files = start.files /\ dirs = start.dirs

\* C2 (as stated): after the second of two identical Merge runs the
\* destination is what the first run left, whatever the first run found.
C2_Original == run >= 2 /\ merge /\ pc = "done" => Unchanged

\* C2 (amended): the second run leaves the destination as the first left it
\* when the first run left every file of the bundle stored at its own target
\* path; when the first run had to store a file under a conflict variant
\* (its target path holds other content), the second run adds a further
\* variant.
C2_Amended ==
    run >= 2 /\ merge /\ Fetched =>
        /\ AllStoredAtTarget /\ pc \in {"write", "await", "remap", "done"}
              => Unchanged
        /\ ~AllStoredAtTarget /\ pc = "done"
              => /\ DOMAIN start.files \subseteq DOMAIN files
                 /\ DOMAIN files # DOMAIN start.files

C2_Witness ==
    /\ run = 2 /\ pc = "done" /\ merge /\ Fetched
    /\ AllStoredAtTarget
    /\ Len(tasks) = 3
    /\ \A i \in 1..3 : tasks[i].counter = 0

\* C3: in every state, every file the invocation found is still there with
\* the content it had; and a write that found other content at its target
\* path has stored its own content under the first .conflictN name that was
\* free (N = 1 when no variant existed).
C3_ConflictSafety ==
    /\ \A f \in DOMAIN start.files :
          f \in DOMAIN files /\ files[f] = start.files[f]
    /\ start.dirs \subseteq dirs
    /\ \A i \in 1..Len(tasks) :
          tasks[i].pc = "done" /\ tasks[i].differs =>
              LET n == tasks[i].counter
                  variant(k) ==
                      File(tasks[i].fullPath.dir,
                           IF tasks[i].fullPath.ext = "" THEN tasks[i].fullPath.base
                           ELSE tasks[i].fullPath.base \o ".conflict" \o ToString(k),
                           IF tasks[i].fullPath.ext = "" THEN "conflict" \o ToString(k)
                           ELSE tasks[i].fullPath.ext)
              IN  /\ n >= 1
                  /\ variant(n) \in DOMAIN files
                  /\ files[variant(n)] = tasks[i].sourceCode
                  /\ variant(n) \notin DOMAIN start.files
                  /\ \A k \in 1..(n - 1) : variant(k) \in DOMAIN files
                  /\ tasks[i].fullPath \in DOMAIN files

C3_Witness ==
    /\ pc = "done" /\ run = 1
    /\ \E i \in 1..Len(tasks) :
          /\ tasks[i].differs
          /\ tasks[i].counter = 2
          /\ tasks[i].fullPath \in DOMAIN start.files
          /\ files[tasks[i].fullPath] = "content0"
          /\ files[OutFile("A.conflict1", "sol")] = "content9"
          /\ files[OutFile("A.conflict2", "sol")] = tasks[i].sourceCode

\* C4: under Strict policy a destination that exists and holds at least one
\* entry ends the invocation with the not-empty error before any write, the
\* filesystem as it was; under Merge policy the destination is never read.
C4_Strict ==
    /\ checked /\ pc # "check" /\ DirEntries(outputRoot, start) # {}
          => /\ pc = "exited"
             /\ error = "Directory is not empty"
             /\ tasks = <<>>
             /\ files = start.files
             /\ dirs = start.dirs
    /\ merge => ~checked
    /\ ~merge /\ pc \in {"write", "await", "remap", "done"} => checked

C4_Witness ==
    /\ run = 1 /\ pc = "exited" /\ checked /\ ~merge
    /\ DirEntries(outputRoot, start) = {".hidden"}

\* C9: a successful materialize of non-empty remappings stores them, joined
\* by newlines in order, in remappings.txt at the destination root (here:
\* when that path was free); with remappings absent or an empty sequence no
\* remappings file is written.
C9_Claim ==
    pc = "done" /\ Fetched =>
        IF bundle.hasRemappings /\ bundle.remappings # <<>>
        THEN TargetOf(RemappingsEntry) \notin DOMAIN start.files
                => /\ TargetOf(RemappingsEntry) \in DOMAIN files
                   /\ files[TargetOf(RemappingsEntry)] = JoinLines(bundle.remappings)
        ELSE /\ Len(tasks) = Len(bundle.sources)
             /\ TargetOf(RemappingsEntry) \in DOMAIN files
                   => TargetOf(RemappingsEntry) \in DOMAIN start.files

\* C11: the per-file writes of a run are launched together; when one of them
\* fails the others are left to run to their own completion or failure, so
\* that a run that has ended, in success or in failure, has no write of its
\* own still under way; a run that succeeded has also written the remappings
\* file when the bundle has remappings.
C11_Claim ==
    /\ pc = "await" => Len(tasks) = Len(bundle.sources)
    /\ pc \in {"done", "exited"} =>
          \A i \in 1..Len(tasks) : tasks[i].pc \in {"done", "failed"}
    /\ pc = "done" /\ Fetched /\ bundle.hasRemappings =>
          Len(tasks) = Len(bundle.sources) + 1

\* The names one logical file can be stored under: its target path and the
\* conflict variants next to it (as many as one invocation's writes can reach
\* on the filesystems drawn).
NamesOf(target) == {GenerateFileName(target, n) : n \in 0..4}

\* Two entries of the bundle with the same target path and other contents.
Collide(i, j) ==
    /\ i # j
    /\ TargetOf(bundle.sources[i]) = TargetOf(bundle.sources[j])
    /\ bundle.sources[i].content # bundle.sources[j].content

\* C12: after a run in which two entries of the bundle have the same target
\* path and different contents, whatever the interleaving of their writes,
\* each of the two contents is stored whole in a file of its own (the target
\* path or one of its conflict variants), and every file the run created
\* holds the whole content of one of the run's logical files.
C12_Claim ==
    pc = "done" /\ Fetched =>
        /\ \A i, j \in 1..Len(bundle.sources) :
              Collide(i, j) =>
                  \E f, g \in NamesOf(TargetOf(bundle.sources[i])) \cap DOMAIN files :
                      /\ f # g
                      /\ files[f] = bundle.sources[i].content
                      /\ files[g] = bundle.sources[j].content
        /\ \A f \in DOMAIN files \ DOMAIN start.files :
              \E e \in LogicalFiles : files[f] = e.content

\* The name write i is trying, or has taken, at its counter.
NameAt(i) == GenerateFileName(tasks[i].fullPath, tasks[i].counter)
TooMany(i) == tasks[i].pc = "failed" /\ tasks[i].err = "Too many conflicts"

\* What holds of the retries in every state: the counter stays within the
\* ceiling; a write that ended with the too-many-conflicts error had found
\* other content at its target and every one of the 1000 variants taken, and
\* all those names are files the invocation found, as it found them; a write
\* that has finished without an error has its content on disk under the name
\* it stopped at, whatever became of the other writes and of the run.
C13_State ==
    \A i \in 1..Len(tasks) :
        /\ tasks[i].counter <= MaxConflicts + 1
        /\ TooMany(i) =>
              /\ tasks[i].counter = MaxConflicts + 1
              /\ tasks[i].differs
              /\ \A n \in 0..MaxConflicts :
                    LET name == GenerateFileName(tasks[i].fullPath, n) IN
                    /\ name \in DOMAIN files
                    /\ name \in DOMAIN start.files
                    /\ files[name] = start.files[name]
        /\ tasks[i].pc = "done" =>
              /\ NameAt(i) \in DOMAIN files
              /\ files[NameAt(i)] = tasks[i].sourceCode

\* What holds of every step of a retry: the counter moves by one, upwards,
\* and only past a name that is taken; a create takes the name at the counter,
\* which was free, and nothing else; the error creates and changes nothing.
C13_Step ==
    \A i \in 1..Len(tasks) :
        i <= Len(tasks') =>
            /\ tasks'[i].counter # tasks[i].counter =>
                  /\ tasks'[i].counter = tasks[i].counter + 1
                  /\ PathExists(NameAt(i))
                  /\ files' = files
            /\ tasks[i].pc = "open" /\ tasks'[i].pc = "write" =>
                  /\ ~PathExists(NameAt(i))
                  /\ tasks'[i].counter = tasks[i].counter
                  /\ DOMAIN files' = DOMAIN files \cup {NameAt(i)}
            /\ tasks[i].pc # "failed" /\ tasks'[i].pc = "failed" =>
                  files' = files /\ dirs' = dirs

\* Some write is under way; every write has ended, by itself or with the
\* process when another write's failure ended it.
AnyPending ==
    /\ Alive
    /\ \E i \in 1..Len(tasks) : tasks[i].pc \in {"ensureDir", "open", "read", "write"}
AllSettled ==
    \/ pc = "exited"
    \/ \A i \in 1..Len(tasks) : tasks[i].pc \in {"done", "failed"}

\* C13: the retry of one logical file ends: it goes through the target path
\* and the variants .conflict1 ... .conflict1000 in increasing N, stops at the
\* first exclusive create that succeeds, and fails with the too-many-conflicts
\* error, nothing created or changed for that file, when the target differs
\* and all 1000 variants are taken; what other writes of the run have stored
\* stays on disk.
C13_Retry ==
    /\ []C13_State
    /\ [][C13_Step]_vars
    /\ AnyPending ~> AllSettled

C13_Witness ==
    /\ run = 1 /\ pc = "exited" /\ error = "Too many conflicts"
    /\ TooMany(1) /\ tasks[1].counter = MaxConflicts + 1
    /\ tasks[2].pc = "done"
    /\ tasks[2].fullPath \notin DOMAIN start.files
    /\ files[tasks[2].fullPath] = tasks[2].sourceCode
    /\ DOMAIN files = DOMAIN start.files \cup {tasks[2].fullPath}

\* C14: in every run the fetch is issued at most once and only after the
\* resolution has succeeded; no file, directory or write exists before the
\* fetch has returned a bundle; a run whose resolution failed, or whose fetch
\* found no source, has ended with that error and the filesystem as it was.
C14_Order ==
    /\ fetches <= 1
    /\ fetches = 1 => ArgsParsed
    /\ pc \in {"check", "write", "await", "remap", "done"} =>
          fetches = 1 /\ bundle # NoBundle /\ bundle.ok
    /\ ~Unchanged \/ tasks # <<>> =>
          fetches = 1 /\ bundle # NoBundle /\ bundle.ok
    /\ parsed # NotYet /\ ~parsed.ok =>
          /\ pc = "exited" /\ error = parsed.err
          /\ fetches = 0 /\ bundle = NoBundle
          /\ Unchanged /\ tasks = <<>>
    /\ bundle # NoBundle /\ ~bundle.ok =>
          /\ pc = "exited" /\ error = "No source found"
          /\ Unchanged /\ tasks = <<>>

C14_Witness ==
    /\ pc = "exited" /\ fetches = 1 /\ ArgsParsed
    /\ bundle # NoBundle /\ bundle.err = "No source found"
    /\ merge /\ DOMAIN start.files # {}
    /\ Unchanged

\* A directory that is the destination root or lies under it.
Inside(dir) ==
    /\ Len(dir) >= Len(outputRoot)
    /\ SubSeq(dir, 1, Len(outputRoot)) = outputRoot

\* C15: every file the invocation creates lies in the destination root or
\* under it, and every directory it creates is the root, lies under it, or
\* leads to it, whatever the relative paths of the bundle are.
C15_Claim ==
    /\ \A f \in DOMAIN files \ DOMAIN start.files : Inside(f.dir)
    /\ \A d \in dirs \ start.dirs : Inside(d) \/ d \in Ancestors(outputRoot)

----------------------------------------------------------------------------
(* Claims about fetchSource *)

Normalised == bundle # NoBundle
\* The payload fetchSource reads: the implementation's behind a proxy.
SourceOf == IF api.proxyAddress \notin {UndefinedS, ""} THEN api.proxyResult ELSE api.result
NameOf ==
    IF api.proxyAddress \notin {UndefinedS, ""}
    THEN File(<<>>, api.proxyContractName, api.proxyExt)
    ELSE File(<<>>, IF api.contractName = UndefinedS THEN "undefined" ELSE api.contractName,
              api.ext)

\* C10: a successful fetch returns a non-empty files mapping: the payload's
\* `sources` mapping when the payload is structured JSON holding one, else
\* the single entry {contractName}.{ext} holding the whole payload; a
\* missing payload fails with the not-found error.
C10_Claim ==
    Normalised =>
        IF SourceOf.text \in {UndefinedS, ""}
        THEN ~bundle.ok /\ bundle.err = "No source found"
        ELSE /\ bundle.ok
             /\ bundle.hasSources
             /\ bundle.sources # <<>>
             /\ IF SourceOf.json.kind = "object" /\ SourceOf.json.hasSources
                THEN bundle.sources = SourceOf.json.sources
                ELSE bundle.sources = <<Entry(NameOf, SourceOf.text)>>

====
